---- MODULE Spec2Model ----
(***************************************************************************)
(* vdmpoke: the command-line tool (vdmpoke.c) and the HPMFraud library     *)
(* (HPMFraud.h / HPMFraud.c) that it drives.                               *)
(*                                                                         *)
(* The transport (the four primitives Read, Write, Command, SendVDM of     *)
(* struct HPMInterface) and the operating system (getopt, geteuid, IOKit   *)
(* enumeration) are the environment: every call into them takes its        *)
(* outcome from a small set.  Everything above them is translated from the *)
(* source.  Strings are sequences of one-character strings, bytes and      *)
(* words are naturals.                                                     *)
(***************************************************************************)
EXTENDS Integers, Sequences, FiniteSets, TLC

VARIABLES
    argv,       \* main's argument vector, argv[0] first (1-based here)
    pc,         \* position in main / the library harness
    args,       \* args_t filled by args_parse
    hpm,        \* HPMClient: "unopened", "open", "closed"
    connType,   \* main's local connType
    mode,       \* the local `mode` of cli_enter_dbma_mode / cli_exit_dbma_mode
    ret,        \* main's / the helpers' local `ret`
    sKey,       \* HPMGetACEUnlockKey's static sKey (zero: not derived yet)
    log,        \* every call made on the handle, in order (see Ev)
    call,       \* the last library call: its name and what it yielded
    exitCode    \* "running", "0", "1", or "crash" (killed by a signal)

vars == <<argv, pc, args, hpm, connType, mode, ret, sKey, log, call, exitCode>>

(***************************************************************************)
(* Bounds of the model.                                                    *)
(***************************************************************************)
\* most word tokens after the command in an argument vector
MaxWords == 6
\* longest reply (in bytes) the transport returns to a mode read
MaxReplyLen == 4

(***************************************************************************)
(* C strings and the libc conversions the tool uses.                       *)
(***************************************************************************)
HexDigits == <<"0","1","2","3","4","5","6","7","8","9","a","b","c","d","e","f">>

\* value of character c as a digit in `base`, or -1
DigitVal(c, base) ==
    LET up == [x \in {"A","B","C","D","E","F"} |->
                  CASE x = "A" -> 10 [] x = "B" -> 11 [] x = "C" -> 12
                    [] x = "D" -> 13 [] x = "E" -> 14 [] x = "F" -> 15]
        v  == IF \E i \in 1..16 : HexDigits[i] = c
              THEN (CHOOSE i \in 1..16 : HexDigits[i] = c) - 1
              ELSE IF c \in DOMAIN up THEN up[c] ELSE -1
    IN IF v >= 0 /\ v < base THEN v ELSE -1

RECURSIVE SkipSpace(_, _)
SkipSpace(s, p) ==
    IF p <= Len(s) /\ s[p] = " " THEN SkipSpace(s, p + 1) ELSE p

RECURSIVE Digits(_, _, _)
\* the values of the digits of `base` that start at position p
Digits(s, p, base) ==
    IF p <= Len(s) /\ DigitVal(s[p], base) >= 0
    THEN <<DigitVal(s[p], base)>> \o Digits(s, p + 1, base)
    ELSE <<>>

\* The scan of strtol/strtoul(s, &end, base) for base 0 or 16: white space, a
\* sign, a 0x prefix, digits.  Yields the sign, the base used, the digits
\* converted and `end` as the 1-based position of the first unconsumed
\* character; end = 1 means no conversion was performed (end == str).
StrToL(s, base) ==
    LET p0   == SkipSpace(s, 1)
        neg  == p0 <= Len(s) /\ s[p0] = "-"
        p1   == IF p0 <= Len(s) /\ s[p0] \in {"-", "+"} THEN p0 + 1 ELSE p0
        isX  == /\ p1 + 2 <= Len(s)
                /\ s[p1] = "0" /\ s[p1 + 1] \in {"x", "X"}
                /\ DigitVal(s[p1 + 2], 16) >= 0
        b    == IF base = 0
                THEN IF isX THEN 16
                     ELSE IF p1 <= Len(s) /\ s[p1] = "0" THEN 8 ELSE 10
                ELSE base
        p2   == IF b = 16 /\ isX THEN p1 + 2 ELSE p1
        d    == Digits(s, p2, b)
    IN IF d = <<>>
       THEN [neg |-> FALSE, base |-> b, digits |-> <<>>, end |-> 1]
       ELSE [neg |-> neg, base |-> b, digits |-> d, end |-> p2 + Len(d)]

RECURSIVE ValueOf(_, _)
\* the number a digit sequence denotes (for numbers below 2^31)
ValueOf(digits, base) ==
    IF digits = <<>> THEN 0
    ELSE ValueOf(SubSeq(digits, 1, Len(digits) - 1), base) * base
         + digits[Len(digits)]

(***************************************************************************)
(* A uint32_t is the sequence of its 8 hexadecimal digits, most            *)
(* significant first (the model checker's integers stop at 2^31 - 1).      *)
(***************************************************************************)
ZeroWord == <<0, 0, 0, 0, 0, 0, 0, 0>>

\* (uint32_t) of the number with the given hexadecimal digits
WordOfHex(digits) ==
    LET n == Len(digits)
    IN [i \in 1..8 |-> IF n - 8 + i >= 1 THEN digits[n - 8 + i] ELSE 0]

\* 1 << n
WordOfBit(n) ==
    [i \in 1..8 |-> IF i = 8 - (n \div 4) THEN 2 ^ (n % 4) ELSE 0]

\* the word of four bytes, b[1] most significant
WordOfBytes(b) ==
    <<b[1] \div 16, b[1] % 16, b[2] \div 16, b[2] % 16,
      b[3] \div 16, b[3] % 16, b[4] \div 16, b[4] % 16>>

RECURSIVE NibbleOr(_, _)
NibbleOr(a, b) ==
    IF a = 0 THEN b ELSE IF b = 0 THEN a
    ELSE 2 * NibbleOr(a \div 2, b \div 2) + (IF a % 2 = 1 \/ b % 2 = 1 THEN 1 ELSE 0)

\* a | b
WordOr(a, b) == [i \in 1..8 |-> NibbleOr(a[i], b[i])]

\* 0 - w (mod 2^32)
WordNeg(w) ==
    IF w = ZeroWord THEN ZeroWord
    ELSE LET last == CHOOSE i \in 1..8 : w[i] # 0 /\ \A j \in (i + 1)..8 : w[j] = 0
         IN [i \in 1..8 |-> IF i < last THEN 15 - w[i]
                            ELSE IF i = last THEN 16 - w[i] ELSE 0]

\* the 4 bytes of a uint32_t in memory (little-endian)
BytesOfWord(w) ==
    <<w[7] * 16 + w[8], w[5] * 16 + w[6], w[3] * 16 + w[4], w[1] * 16 + w[2]>>

\* the test of `end` after strtoul and the value stored through `out`
parse_int_result(str, r) ==
    IF r.end = 1 \/ r.end <= Len(str)
    THEN [ok |-> FALSE, value |-> 0]
    ELSE [ok |-> TRUE, value |-> IF r.neg THEN 0 - ValueOf(r.digits, r.base)
                                 ELSE ValueOf(r.digits, r.base)]

\* args_parse_int: strtoul(str, &end, 0); fails when nothing was converted or
\* text follows the number.  [ok, value]; the option arguments of the model
\* are small, so ERANGE does not arise and the value is kept as an integer.
args_parse_int(str) == parse_int_result(str, StrToL(str, 0))

strcmp_eq(a, b) == a = b

(***************************************************************************)
(* Command line: args_t, getopt("r:") and args_parse.                      *)
(***************************************************************************)
\* argv[i] with C's 0-based index
Arg(av, i) == av[i + 1]

\* the content of a rest[] entry args_parse never assigned
Uninit == <<"<uninit>">>

\* the 8 entries of args_t.rest
RestSize == 8

\* case 'r' of the switch of args_parse: args->rid is set when
\* args_parse_int succeeds and left alone otherwise
set_rid(r, rid) == IF r.ok THEN r.value ELSE rid

\* One step of getopt(argc, argv, "r:") (BSD getopt: scanning stops at the
\* first non-option, at "-" and after "--") with the body of the switch of
\* args_parse applied to the option found.  ind is optind, pos the position
\* inside the current option cluster (0: at the start of a token).
getopt_step(av, ind, pos, rid) ==
    LET argc == Len(av)
        tok  == Arg(av, ind)
        stop(i) == [done |-> TRUE, ind |-> i, pos |-> 0, rid |-> rid]
        on(i, p, v) == [done |-> FALSE, ind |-> i, pos |-> p, rid |-> v]
    IN IF pos = 0
       THEN IF ind >= argc THEN stop(ind)
            ELSE IF Len(tok) = 0 \/ tok[1] # "-" \/ Len(tok) = 1
                 THEN stop(ind)
            ELSE IF tok = <<"-", "-">> THEN stop(ind + 1)
            ELSE on(ind, 2, rid)
       ELSE IF tok[pos] = "r"
            THEN IF pos < Len(tok) \/ ind + 1 < argc
                 THEN on(IF pos < Len(tok) THEN ind + 1 ELSE ind + 2, 0,
                         set_rid(args_parse_int(
                                     IF pos < Len(tok)
                                     THEN SubSeq(tok, pos + 1, Len(tok))
                                     ELSE Arg(av, ind + 1)), rid))
                 ELSE on(ind + 1, 0, rid)
            ELSE IF pos < Len(tok) THEN on(ind, pos + 1, rid)
                 ELSE on(ind + 1, 0, rid)

RECURSIVE getopt_loop(_, _, _, _)
\* the loop condition: getopt returned -1, or another round
getopt_next(av, s) ==
    IF s.done THEN [optind |-> s.ind, rid |-> s.rid]
    ELSE getopt_loop(av, s.ind, s.pos, s.rid)

\* The while loop of args_parse around getopt.  Result: [optind, rid].
getopt_loop(av, ind, pos, rid) ==
    getopt_next(av, getopt_step(av, ind, pos, rid))

\* the strcmp chain of args_parse
cmd_of(tok) ==
    IF strcmp_eq(tok, <<"r","e","b","o","o","t">>) THEN "CMD_REBOOT"
    ELSE IF strcmp_eq(tok, <<"d","f","u">>) THEN "CMD_DFU"
    ELSE IF strcmp_eq(tok, <<"d","e","b","u","g">>) THEN "CMD_DEBUG"
    ELSE IF strcmp_eq(tok, <<"c","u","s","t","o","m">>) THEN "CMD_CUSTOM"
    ELSE "CMD_HELP"

\* index of rest[] that the loop of args_parse assigns argv[i] to
rest_index(i) == i - 2

\* the values of i for which the loop body of args_parse runs
rest_loop(optind, argc) == { i \in optind..(argc - 1) : i < 8 }

\* args_parse after the option loop (lines 78-97).  `rest` holds the entries
\* 0..7 of the array; `stores` is the set of indices the loop stored to,
\* which may lie outside 0..7.
args_rest(av, g, is) ==
    IF g.optind = Len(av)
    THEN [prog |-> Arg(av, 0), cmd |-> "CMD_HELP", rid |-> g.rid,
          num_rest |-> 0, rest |-> [k \in 0..(RestSize - 1) |-> Uninit],
          stores |-> {}, optind |-> g.optind]
    ELSE [prog |-> Arg(av, 0), cmd |-> cmd_of(Arg(av, g.optind)),
          rid |-> g.rid,
          num_rest |-> Cardinality(is),
          rest |-> [k \in 0..(RestSize - 1) |->
                      IF \E i \in is : rest_index(i) = k
                      THEN Arg(av, CHOOSE i \in is : rest_index(i) = k)
                      ELSE Uninit],
          stores |-> { rest_index(i) : i \in is },
          optind |-> g.optind]

args_cmd(av, g) == args_rest(av, g, rest_loop(g.optind, Len(av)))

\* args_parse
args_parse(av) == args_cmd(av, getopt_loop(av, 1, 0, 0))

\* the conversion with a token that is not consumed to its end giving 0
word_of_m(tok) ==
    LET r == StrToL(tok, 16)
        w == WordOfHex(r.digits)
    IN IF r.end <= Len(tok) THEN ZeroWord
       ELSE IF r.neg THEN WordNeg(w) ELSE w

\* main's loop for CMD_CUSTOM: words[i] = (uint32_t)strtol(rest[i], NULL, 16)
word_of(tok) ==
    LET r == StrToL(tok, 16)
        w == WordOfHex(r.digits)
    IN IF r.neg THEN WordNeg(w) ELSE w

(***************************************************************************)
(* HPMFraud: values.                                                       *)
(***************************************************************************)
Success == "kIOReturnSuccess"

\* error codes the transport and IOKit may hand back
Errs == {"kIOReturnIOError", "kIOReturnNotResponding"}

RECURSIVE BitAnd(_, _)
BitAnd(a, b) ==
    IF a = 0 \/ b = 0 THEN 0
    ELSE 2 * BitAnd(a \div 2, b \div 2) + (IF a % 2 = 1 /\ b % 2 = 1 THEN 1 ELSE 0)

\* HPMConnectionType
kHPMConnectionTypeError == -1
kHPMConnectionTypeNone == 0
kHPMConnectionTypeSource == 1
kHPMConnectionTypeSink == 3
kHPMConnectionTypeMask == 3

\* character codes of the mode tags "APP" and "DBMa"
TagAPP  == <<65, 80, 80>>
TagDBMa == <<68, 66, 77, 97>>

\* a pointer argument: NULL, or the bytes it points to
NullPtr == [null |-> TRUE, bytes |-> <<>>]
Ptr(b)  == [null |-> FALSE, bytes |-> b]
kHPMCommandArg0 == Ptr(<<0>>)
kHPMCommandArg1 == Ptr(<<1>>)

\* one call on the transport, as recorded in log: what was passed, whether
\* it returned kIOReturnSuccess, and the reply of a successful Read
Ev(op, addr, cmd, data, len, flags, r, reply) ==
    [op |-> op, addr |-> addr, cmd |-> cmd, data |-> data, len |-> len,
     flags |-> flags, ok |-> (r = Success), reply |-> reply]

(***************************************************************************)
(* HPMFraud: functions.  Each takes, besides its C parameters, the outcome *)
(* o of the environment calls it makes, and yields its return value with   *)
(* the transport calls it made (ops).                                      *)
(***************************************************************************)
\* HPMRead; o = [ret, reply].  length is what the caller's variable holds
\* afterwards (callers initialise it to 0; it is written only on success).
HPMRead(address, flags, o) ==
    IF o.ret # Success
    THEN [ret |-> o.ret, reply |-> <<>>, length |-> 0,
          ops |-> <<Ev("Read", address, "", <<>>, 0, flags, o.ret, <<>>)>>]
    ELSE [ret |-> Success, reply |-> o.reply, length |-> Len(o.reply),
          ops |-> <<Ev("Read", address, "", <<>>, 0, flags, Success, o.reply)>>]

memcmp_eq(buf, lit, n) == \A i \in 1..n : buf[i] = lit[i]

\* HPMGetMode with the second memcmp given the length of the first (3)
HPMGetMode_m(o) ==
    LET r == HPMRead(3, 0, o)
    IN IF r.ret # Success
       THEN [ret |-> r.ret, mode |-> "unset", ops |-> r.ops]
       ELSE IF r.length < 4
       THEN [ret |-> "kIOReturnUnderrun", mode |-> "unset", ops |-> r.ops]
       ELSE IF memcmp_eq(r.reply, TagAPP, 3)
       THEN [ret |-> Success, mode |-> "kHPMModeApp", ops |-> r.ops]
       ELSE IF memcmp_eq(r.reply, TagDBMa, 3)
       THEN [ret |-> Success, mode |-> "kHPMModeDBMA", ops |-> r.ops]
       ELSE [ret |-> Success, mode |-> "kHPMModeUnknown", ops |-> r.ops]

\* HPMGetMode; o = [ret, reply].  mode is "unset" when *modeOut is not written.
HPMGetMode(o) ==
    LET r == HPMRead(3, 0, o)
    IN IF r.ret # Success
       THEN [ret |-> r.ret, mode |-> "unset", ops |-> r.ops]
       ELSE IF r.length < 4
       THEN [ret |-> "kIOReturnUnderrun", mode |-> "unset", ops |-> r.ops]
       ELSE IF memcmp_eq(r.reply, TagAPP, 3)
       THEN [ret |-> Success, mode |-> "kHPMModeApp", ops |-> r.ops]
       ELSE IF memcmp_eq(r.reply, TagDBMa, 4)
       THEN [ret |-> Success, mode |-> "kHPMModeDBMA", ops |-> r.ops]
       ELSE [ret |-> Success, mode |-> "kHPMModeUnknown", ops |-> r.ops]

\* HPMGetConnectionType with a mask one bit too wide
HPMGetConnectionType_m(o) ==
    LET r == HPMRead(63, 0, o)
    IN IF r.ret # Success \/ r.length = 0
       THEN [type |-> kHPMConnectionTypeError, ops |-> r.ops]
       ELSE [type |-> BitAnd(r.reply[1], 7), ops |-> r.ops]

\* HPMGetConnectionType; o = [ret, reply]
HPMGetConnectionType(o) ==
    LET r == HPMRead(63, 0, o)
    IN IF r.ret # Success \/ r.length = 0
       THEN [type |-> kHPMConnectionTypeError, ops |-> r.ops]
       ELSE [type |-> BitAnd(r.reply[1], kHPMConnectionTypeMask), ops |-> r.ops]

\* HPMDoCommand writing the arguments whenever the pointer is not NULL
HPMDoCommand_m(command, cargs, argsLength, wantOut, o) ==
    LET wr   == IF ~cargs.null
                THEN <<Ev("Write", 9, "", SubSeq(cargs.bytes, 1, argsLength),
                          argsLength, 0, o.w, <<>>)>>
                ELSE <<>>
        cm   == <<Ev("Command", 0, command, <<>>, 0, 0, o.c, <<>>)>>
        rd   == HPMRead(9, 0, o.r)
    IN IF wr # <<>> /\ o.w # Success
       THEN [ret |-> o.w, out |-> "unset", ops |-> wr]
       ELSE IF o.c # Success
       THEN [ret |-> o.c, out |-> "unset", ops |-> wr \o cm]
       ELSE IF rd.ret # Success \/ rd.length = 0
       THEN [ret |-> rd.ret, out |-> "unset", ops |-> wr \o cm \o rd.ops]
       ELSE [ret |-> Success,
             out |-> IF wantOut THEN BitAnd(rd.reply[1], 15) ELSE "unset",
             ops |-> wr \o cm \o rd.ops]

\* HPMDoCommand; o = [w, c, r]: the results of Write, Command and Read.
\* out is "unset" when *out is not written (or out is NULL).
HPMDoCommand(command, cargs, argsLength, wantOut, o) ==
    LET wr   == IF ~cargs.null /\ argsLength # 0
                THEN <<Ev("Write", 9, "", SubSeq(cargs.bytes, 1, argsLength),
                          argsLength, 0, o.w, <<>>)>>
                ELSE <<>>
        cm   == <<Ev("Command", 0, command, <<>>, 0, 0, o.c, <<>>)>>
        rd   == HPMRead(9, 0, o.r)
    IN IF wr # <<>> /\ o.w # Success
       THEN [ret |-> o.w, out |-> "unset", ops |-> wr]
       ELSE IF o.c # Success
       THEN [ret |-> o.c, out |-> "unset", ops |-> wr \o cm]
       ELSE IF rd.ret # Success \/ rd.length = 0
       THEN [ret |-> rd.ret, out |-> "unset", ops |-> wr \o cm \o rd.ops]
       ELSE [ret |-> Success,
             out |-> IF wantOut THEN BitAnd(rd.reply[1], 15) ELSE "unset",
             ops |-> wr \o cm \o rd.ops]

\* HPMSendVDM; o is the result of the interface's SendVDM.  body is the array
\* the pointer designates, bodyLength the length handed over (in bytes).
HPMSendVDM(body, bodyLength, o) ==
    [ret |-> o, ops |-> <<Ev("SendVDM", 3, "", body, bodyLength, 0, o, <<>>)>>]

\* VDMCommand, VDMAction, VDMFlags
kVDMCommandList == <<0, 5, 10, 12, 8, 0, 1, 0>>      \* 0x5ac8010
kVDMCommandAction == <<0, 5, 10, 12, 8, 0, 1, 2>>    \* 0x5ac8012
kVDMActionReboot == <<0, 0, 0, 0, 0, 1, 0, 5>>       \* 0x105
kVDMActionDFU == <<0, 0, 0, 0, 0, 1, 0, 6>>          \* 0x106
kVDMActionDebugUSB == <<0, 0, 0, 0, 4, 6, 0, 6>>     \* 0x4606
kVDMFlagsLine1 == WordOfBit(17)
kVDMFlagsGraceful == WordOfBit(23)

\* HPMKnownVDM
kHPMKnownVDMList == 0
kHPMKnownVDMReboot == 1
kHPMKnownVDMDFU == 2
kHPMKnownVDMDebugUSB == 3

\* the number of elements where the size in bytes is meant
SizeofWords_m(body) == Len(body)

\* sizeof of an array of uint32_t
SizeofWords(body) == 4 * Len(body)

s_body_list == <<kVDMCommandList>>
s_body_reboot ==
    <<kVDMCommandAction, kVDMActionReboot, <<8, 0, 0, 0, 0, 0, 0, 0>> >>
s_body_debug_dfu ==
    <<kVDMCommandAction, kVDMActionDFU, <<8, 0, 0, 1, 0, 0, 0, 0>> >>
s_body_debug ==
    <<kVDMCommandAction,
      WordOr(WordOr(kVDMFlagsGraceful, kVDMFlagsLine1), kVDMActionDebugUSB)>>

\* HPMSendKnownVDM
HPMSendKnownVDM(knownVDM, o) ==
    IF knownVDM = kHPMKnownVDMList
    THEN HPMSendVDM(s_body_list, SizeofWords(s_body_list), o)
    ELSE IF knownVDM = kHPMKnownVDMReboot
    THEN HPMSendVDM(s_body_reboot, SizeofWords(s_body_reboot), o)
    ELSE IF knownVDM = kHPMKnownVDMDFU
    THEN HPMSendVDM(s_body_debug_dfu, SizeofWords(s_body_debug_dfu), o)
    ELSE IF knownVDM = kHPMKnownVDMDebugUSB
    THEN HPMSendVDM(s_body_debug, SizeofWords(s_body_debug), o)
    ELSE [ret |-> "kIOReturnError", ops |-> <<>>]

\* HPMGetACEUnlockKey; key is the static sKey, o = [service, nameOk, name] the
\* outcome of the platform expert lookup (name: the character codes of the
\* registry entry name).  Yields the pointer returned and the new sKey.
HPMGetACEUnlockKey(key, o) ==
    IF key # ZeroWord THEN [ptr |-> Ptr(BytesOfWord(key)), sKey |-> key]
    ELSE IF ~o.service THEN [ptr |-> NullPtr, sKey |-> key]
    ELSE IF ~o.nameOk THEN [ptr |-> NullPtr, sKey |-> key]
    ELSE LET k == WordOfBytes(o.name)
         IN [ptr |-> Ptr(BytesOfWord(k)), sKey |-> k]

\* HPMUnlockACE without the IO_TRY around the Gaid command
HPMUnlockACE_m(key, o) ==
    LET g1 == HPMGetACEUnlockKey(key, o.k1)
        c1 == HPMDoCommand("LOCK", g1.ptr, 4, FALSE, o.d1)
        c2 == HPMDoCommand("Gaid", NullPtr, 0, FALSE, o.d2)
        g2 == HPMGetACEUnlockKey(g1.sKey, o.k2)
        c3 == HPMDoCommand("LOCK", g2.ptr, 4, FALSE, o.d3)
        n1 == [command |-> "LOCK", ret |-> c1.ret]
        n2 == [command |-> "Gaid", ret |-> c2.ret]
        n3 == [command |-> "LOCK", ret |-> c3.ret]
    IN IF c1.ret = Success
       THEN [ret |-> c1.ret, ops |-> c1.ops, cmds |-> <<n1>>, sKey |-> g1.sKey]
       ELSE [ret |-> c3.ret, ops |-> c1.ops \o c2.ops \o c3.ops,
             cmds |-> <<n1, n2, n3>>, sKey |-> g2.sKey]

\* HPMUnlockACE; o = [k1, d1, d2, k2, d3]: the outcomes of the first key
\* lookup and Lock, of the Gaid command, and of the second key lookup and
\* Lock.  cmds lists the HPMDoCommand calls made, each with its result.
HPMUnlockACE(key, o) ==
    LET g1 == HPMGetACEUnlockKey(key, o.k1)
        c1 == HPMDoCommand("LOCK", g1.ptr, 4, FALSE, o.d1)
        c2 == HPMDoCommand("Gaid", NullPtr, 0, FALSE, o.d2)
        g2 == HPMGetACEUnlockKey(g1.sKey, o.k2)
        c3 == HPMDoCommand("LOCK", g2.ptr, 4, FALSE, o.d3)
        n1 == [command |-> "LOCK", ret |-> c1.ret]
        n2 == [command |-> "Gaid", ret |-> c2.ret]
        n3 == [command |-> "LOCK", ret |-> c3.ret]
    IN IF c1.ret = Success
       THEN [ret |-> c1.ret, ops |-> c1.ops, cmds |-> <<n1>>, sKey |-> g1.sKey]
       ELSE IF c2.ret # Success
       THEN [ret |-> c2.ret, ops |-> c1.ops \o c2.ops, cmds |-> <<n1, n2>>,
             sKey |-> g1.sKey]
       ELSE [ret |-> c3.ret, ops |-> c1.ops \o c2.ops \o c3.ops,
             cmds |-> <<n1, n2, n3>>, sKey |-> g2.sKey]

\* the loop of HPMFindService leaving at the first device of another RID
find_loop_m(devices, i, targetRID) ==
    IF i > Len(devices) THEN [ret |-> "kIOReturnNotFound", service |-> 0]
    ELSE IF ~devices[i].hasRID THEN [ret |-> "kIOReturnError", service |-> 0]
    ELSE IF devices[i].rid # targetRID
    THEN [ret |-> "kIOReturnNotFound", service |-> 0]
    ELSE [ret |-> Success, service |-> i]

RECURSIVE find_loop(_, _, _)
\* the while loop of HPMFindService over the enumerated devices; each device
\* is [hasRID, rid]: its RID property, if it can be read.
\* Yields [ret, service]: service is the 1-based position of the match.
find_loop(devices, i, targetRID) ==
    IF i > Len(devices) THEN [ret |-> "kIOReturnNotFound", service |-> 0]
    ELSE IF ~devices[i].hasRID THEN [ret |-> "kIOReturnError", service |-> 0]
    ELSE IF devices[i].rid # targetRID THEN find_loop(devices, i + 1, targetRID)
    ELSE [ret |-> Success, service |-> i]

\* HPMFindService; o = [enum, devices]
HPMFindService(targetRID, o) ==
    IF o.enum # Success THEN [ret |-> o.enum, service |-> 0]
    ELSE find_loop(o.devices, 1, targetRID)

\* HPMClientOpen; o = [enum, devices, plugin, query].  client is the HPMClient
\* afterwards: "unopened" when its fields were not written.
HPMClientOpen(rid, o) ==
    LET f == HPMFindService(rid, o)
    IN IF f.ret # Success
       THEN [ret |-> f.ret, client |-> "unopened", service |-> 0]
       ELSE IF o.plugin # Success
       THEN [ret |-> o.plugin, client |-> "unopened", service |-> f.service]
       ELSE IF ~o.query
       THEN [ret |-> "kIOReturnError", client |-> "unopened", service |-> f.service]
       ELSE [ret |-> Success, client |-> "open", service |-> f.service]

\* HPMClientClose
HPMClientClose(client) == "closed"

(***************************************************************************)
(* The environment: argument vectors and outcomes of the calls into the    *)
(* transport and the operating system.                                     *)
(***************************************************************************)
t_prog   == <<"v","d","m","p","o","k","e">>
t_reboot == <<"r","e","b","o","o","t">>
t_dfu    == <<"d","f","u">>
t_debug  == <<"d","e","b","u","g">>
t_custom == <<"c","u","s","t","o","m">>
t_help   == <<"h","e","l","p">>

\* what may stand between argv[0] and the command
OptPrefixes ==
    { <<>>,
      << <<"-","r">>, <<"1">> >>,
      << <<"-","r","0","x","1">> >>,
      << <<"-","x">> >>,
      << <<"-","-">> >>,
      << <<"-","r">> >> }

\* well-formed hexadecimal words, and words that are not
HexPool == << <<"5","a","c","8","0","1","2">>, <<"1","0","5">>,
              <<"8","0","0","0","0","0","0","0">>, <<"1","f">>,
              <<"0","x","A","b">>, <<"0">>, <<"f","f","f","f","f","f","f","f">>,
              <<"7">>, <<"2","a">> >>
OddPool == << <<"z","z">>, <<"1","2","g">>, <<"-","1">>, <<"0","x">>,
              <<"1","f","f","f","f","f","f","f","f">>, <<" ","9">>, <<>>,
              <<"r","e","b","o","o","t">>, <<"+","f">> >>

\* both kinds in turn
MixedPool == << <<"5","a","c","8","0","1","2">>, <<"1","2","g">>, <<"1","0","5">>,
                <<"z","z">>, <<"2","a">>, <<"-","1">>, <<"7">>, <<"0","x">>,
                <<"1","f">> >>

PoolAt(pool, i) == pool[((i - 1) % Len(pool)) + 1]
Words(pool, n) == [i \in 1..n |-> PoolAt(pool, i)]

\* what may follow the options: nothing, a command, a command and words
ShortTails ==
    {<<>>}
    \cup { <<c>> : c \in {t_reboot, t_dfu, t_debug, t_custom, t_help} }
    \cup { <<t_reboot, <<"1","f">> >> }
CustomTails(pool) ==
    { <<t_custom>> \o Words(pool, n) : n \in 1..MaxWords }

\* the argument vectors of the runs of main
Argvs ==
    { <<t_prog>> \o pre \o tail : pre \in OptPrefixes, tail \in ShortTails }
    \cup { <<t_prog>> \o pre \o tail :
              pre \in { <<>>, << <<"-","r","0","x","1">> >>,
                         << <<"-","r">>, <<"1">> >> },
              tail \in CustomTails(HexPool) }
    \cup { <<t_prog, <<"-","r","0","x","1">> >> \o tail :
              tail \in CustomTails(OddPool) \cup CustomTails(MixedPool) }

\* outcomes of the interface's Read
ReadFail == { [ret |-> e, reply |-> <<>>] : e \in Errs }
ReadOk(replies) == { [ret |-> Success, reply |-> r] : r \in replies }

\* replies to the mode read in a run of main
MainModeReplies ==
    { <<65, 80, 80>>, <<65, 80, 80, 0>>, TagDBMa, <<68, 66, 77, 0>> }

\* replies to the connection type read in a run of main
MainConnReplies == { <<>>, <<0>>, <<1>>, <<2>>, <<3>> }

\* replies to the read that ends HPMDoCommand, in a run of main
MainCmdReplies == { <<0>> }

\* outcomes of the three transport calls of HPMDoCommand; calls after the
\* first failing one are not made and are given a fixed outcome
DoOutcomes(replies) ==
    LET okr == [ret |-> Success, reply |-> <<0>>]
    IN { [w |-> e, c |-> Success, r |-> okr] : e \in Errs }
       \cup { [w |-> Success, c |-> e, r |-> okr] : e \in Errs }
       \cup { [w |-> Success, c |-> Success, r |-> x] :
                x \in ReadFail \cup ReadOk(replies) }

\* the platform expert's registry entry name, here "J314"
PlatformName == <<74, 51, 49, 52>>

KeyOutcomes ==
    { [service |-> FALSE, nameOk |-> TRUE, name |-> PlatformName],
      [service |-> TRUE, nameOk |-> FALSE, name |-> PlatformName],
      [service |-> TRUE, nameOk |-> TRUE, name |-> PlatformName] }

DoOk == [w |-> Success, c |-> Success, r |-> [ret |-> Success, reply |-> <<0>>]]
KeyOk == [service |-> TRUE, nameOk |-> TRUE, name |-> PlatformName]

\* outcomes of the calls of HPMUnlockACE; calls that are not made are given
\* a fixed outcome
UnlockOutcomes(key, replies) ==
    LET K  == IF key # ZeroWord THEN {KeyOk} ELSE KeyOutcomes
        D  == DoOutcomes(replies)
        ok1(k, d) == HPMDoCommand("LOCK", HPMGetACEUnlockKey(key, k).ptr, 4,
                                  FALSE, d).ret = Success
        ok2(d) == HPMDoCommand("Gaid", NullPtr, 0, FALSE, d).ret = Success
        K2(k)  == IF HPMGetACEUnlockKey(key, k).sKey # ZeroWord THEN {KeyOk}
                  ELSE KeyOutcomes
    IN UNION { UNION {
         IF ok1(k1, d1)
         THEN { [k1 |-> k1, d1 |-> d1, d2 |-> DoOk, k2 |-> KeyOk, d3 |-> DoOk] }
         ELSE UNION {
           IF ~ok2(d2)
           THEN { [k1 |-> k1, d1 |-> d1, d2 |-> d2, k2 |-> KeyOk, d3 |-> DoOk] }
           ELSE { [k1 |-> k1, d1 |-> d1, d2 |-> d2, k2 |-> k2, d3 |-> d3] :
                    k2 \in K2(k1), d3 \in D }
           : d2 \in D }
         : d1 \in D } : k1 \in K }

\* most devices the enumeration of HPMFindService yields
MaxDevices == 2

RidDevice(r) == [hasRID |-> TRUE, rid |-> r]
NoRidDevice  == [hasRID |-> FALSE, rid |-> 0]

DeviceLists ==
    UNION { [1..n -> {RidDevice(0), RidDevice(1), NoRidDevice}] : n \in 0..MaxDevices }

\* outcomes of the IOKit calls of HPMClientOpen
OpenOutcomes ==
    { [enum |-> e, devices |-> <<>>, plugin |-> Success, query |-> TRUE] : e \in Errs }
    \cup { [enum |-> Success, devices |-> d, plugin |-> p, query |-> q] :
             d \in DeviceLists, p \in {Success} \cup Errs, q \in BOOLEAN }

(***************************************************************************)
(* vdmpoke.c: main, cli_enter_dbma_mode, cli_exit_dbma_mode.               *)
(***************************************************************************)
NoCall == [fn |-> "none"]

\* fatalf: print and exit(1)
fatalf ==
    /\ pc' = "exited"
    /\ exitCode' = "1"

\* where a helper or main goes on after a call: a pc, or "fatal" for fatalf
goto(next) ==
    IF next = "fatal" THEN fatalf
    ELSE /\ pc' = next
         /\ UNCHANGED exitCode

\* cli_enter_dbma_mode without the early return
enter_first_branch_m(r) ==
    IF r.ret # Success THEN "fatal"
    ELSE "enter_unlock"

\* cli_enter_dbma_mode, lines 122-125: r is what HPMGetMode yielded
enter_first_branch(r) ==
    IF r.ret # Success THEN "fatal"
    ELSE IF r.mode = "kHPMModeDBMA" THEN "send"
    ELSE "enter_unlock"

\* cli_enter_dbma_mode without the final test of the mode
enter_verify_branch_m(r) ==
    IF r.ret # Success THEN "fatal"
    ELSE "send"

\* cli_enter_dbma_mode, lines 136-139
enter_verify_branch(r) ==
    IF r.ret # Success THEN "fatal"
    ELSE IF r.mode # "kHPMModeDBMA" THEN "fatal"
    ELSE "send"

\* cli_exit_dbma_mode demanding Application mode
exit_verify_branch_m(r) ==
    IF r.ret # Success THEN "fatal"
    ELSE IF r.mode # "kHPMModeApp" THEN "fatal"
    ELSE "close"

\* cli_exit_dbma_mode, lines 150-153
exit_verify_branch(r) ==
    IF r.ret # Success THEN "fatal"
    ELSE IF r.mode = "kHPMModeDBMA" THEN "fatal"
    ELSE "close"

\* main with "no device connected" not treated as a failure
conn_branch_m(type) ==
    IF type = kHPMConnectionTypeError THEN "fatal"
    ELSE "enter"

\* main, lines 176-179
conn_branch(type) ==
    IF type = kHPMConnectionTypeError THEN "fatal"
    ELSE IF type = kHPMConnectionTypeNone THEN "fatal"
    ELSE "enter"

\* main without the call of cli_exit_dbma_mode
send_branch_m(r) ==
    IF r # Success THEN "fatal" ELSE "close"

\* main, lines 209-212
send_branch(r) ==
    IF r # Success THEN "fatal" ELSE "exit_dbma"

\* values num_rest may hold after args_parse stored to rest[-1], which on the
\* target ABI is the storage of num_rest and its padding: the count (num_rest
\* kept in a register), or the low half of a pointer plus the count
ClobberedNumRest(count) == {count, -3, 12}

\* main, lines 160-163: the help exit, with args as args_parse left it
parse_branch(a) ==
    \E n \in (IF -1 \in a.stores THEN ClobberedNumRest(a.num_rest)
              ELSE {a.num_rest}) :
       /\ args' = [a EXCEPT !.num_rest = n]
       /\ IF a.cmd = "CMD_HELP"
          THEN /\ pc' = "exited"
               /\ exitCode' = "1"
          ELSE /\ pc' = "check_root"
               /\ UNCHANGED exitCode

\* main, lines 158-163: args_parse, then the help exit
MainParse ==
    /\ pc = "main"
    /\ parse_branch(args_parse(argv))
    /\ UNCHANGED <<argv, hpm, connType, mode, ret, sKey, log, call>>

\* main without the test of the effective user
root_branch_m(euid) == "open"

\* main, lines 167-168
root_branch(euid) == IF euid # 0 THEN "fatal" ELSE "open"

\* main, lines 167-168: geteuid
MainCheckRoot ==
    /\ pc = "check_root"
    /\ \E euid \in {0, 501} :
         /\ call' = [fn |-> "geteuid", out |-> euid]
         /\ goto(root_branch(euid))
    /\ UNCHANGED <<argv, args, hpm, connType, mode, ret, sKey, log>>

\* main, lines 170-173: HPMClientOpen
MainOpen ==
    /\ pc = "open"
    /\ \E o \in OpenOutcomes :
         LET r == HPMClientOpen(args.rid, o)
         IN /\ hpm' = r.client
            /\ ret' = r.ret
            /\ call' = [fn |-> "HPMClientOpen", out |-> r]
            /\ log' = Append(log, Ev("Open", 0, "", <<>>, 0, 0, r.ret, <<>>))
            /\ goto(IF r.ret # Success THEN "fatal" ELSE "conn")
    /\ UNCHANGED <<argv, args, connType, mode, sKey>>

\* main, lines 175-179: HPMGetConnectionType
MainConnType ==
    /\ pc = "conn"
    /\ \E o \in ReadFail \cup ReadOk(MainConnReplies) :
         LET r == HPMGetConnectionType(o)
         IN /\ connType' = r.type
            /\ call' = [fn |-> "HPMGetConnectionType", out |-> r]
            /\ log' = log \o r.ops
            /\ goto(conn_branch(r.type))
    /\ UNCHANGED <<argv, args, hpm, mode, ret, sKey>>

\* cli_enter_dbma_mode, lines 120-125: the first mode query
EnterGetMode ==
    /\ pc = "enter"
    /\ \E o \in ReadFail \cup ReadOk(MainModeReplies) :
         LET r == HPMGetMode(o)
         IN /\ ret' = r.ret
            /\ mode' = IF r.ret = Success THEN r.mode ELSE mode
            /\ call' = [fn |-> "HPMGetMode", out |-> r]
            /\ log' = log \o r.ops
            /\ goto(enter_first_branch(r))
    /\ UNCHANGED <<argv, args, hpm, connType, sKey>>

\* cli_enter_dbma_mode, lines 127-129: HPMUnlockACE
EnterUnlock ==
    /\ pc = "enter_unlock"
    /\ \E o \in UnlockOutcomes(sKey, MainCmdReplies) :
         LET r == HPMUnlockACE(sKey, o)
         IN /\ ret' = r.ret
            /\ sKey' = r.sKey
            /\ call' = [fn |-> "HPMUnlockACE", out |-> r]
            /\ log' = log \o r.ops
            /\ goto(IF r.ret # Success THEN "fatal" ELSE "enter_dbma")
    /\ UNCHANGED <<argv, args, hpm, connType, mode>>

\* cli_enter_dbma_mode, lines 131-133: the DBMa command with argument 1
EnterDBMA ==
    /\ pc = "enter_dbma"
    /\ \E o \in DoOutcomes(MainCmdReplies) :
         LET r == HPMDoCommand("DBMa", kHPMCommandArg1, 1, FALSE, o)
         IN /\ ret' = r.ret
            /\ call' = [fn |-> "HPMDoCommand", out |-> r]
            /\ log' = log \o r.ops
            /\ goto(IF r.ret # Success THEN "fatal" ELSE "enter_verify")
    /\ UNCHANGED <<argv, args, hpm, connType, mode, sKey>>

\* cli_enter_dbma_mode, lines 135-139: the mode query after the command
EnterVerify ==
    /\ pc = "enter_verify"
    /\ \E o \in ReadFail \cup ReadOk(MainModeReplies) :
         LET r == HPMGetMode(o)
         IN /\ ret' = r.ret
            /\ mode' = IF r.ret = Success THEN r.mode ELSE mode
            /\ call' = [fn |-> "HPMGetMode", out |-> r]
            /\ log' = log \o r.ops
            /\ goto(enter_verify_branch(r))
    /\ UNCHANGED <<argv, args, hpm, connType, sKey>>

\* values a word may take when strtol is handed an unassigned rest[] entry
GarbageWords == {ZeroWord, <<13, 14, 10, 13, 11, 14, 14, 15>>}

\* main, lines 194-200: the loop that fills words[8] for CMD_CUSTOM.
\* ub: the loop indexes rest/words past their end, or reads an entry of rest
\* that was never assigned; g is the word such a read produces.
custom_words(a, g) ==
    LET n == a.num_rest
    IN [words |-> [i \in 1..8 |->
                     IF i <= n
                     THEN IF a.rest[i - 1] = Uninit THEN g
                          ELSE word_of(a.rest[i - 1])
                     ELSE ZeroWord],
        num_words |-> IF n > 0 THEN n ELSE 0,
        ub |-> n > 8 \/ \E i \in 1..8 : i <= n /\ a.rest[i - 1] = Uninit]

\* the switch of main sending once more when the send failed
send_switch_m(a, g, o) ==
    LET r == IF a.cmd = "CMD_REBOOT" THEN HPMSendKnownVDM(kHPMKnownVDMReboot, o)
             ELSE IF a.cmd = "CMD_DFU" THEN HPMSendKnownVDM(kHPMKnownVDMDFU, o)
             ELSE IF a.cmd = "CMD_DEBUG"
             THEN HPMSendKnownVDM(kHPMKnownVDMDebugUSB, o)
             ELSE HPMSendVDM(custom_words(a, g).words,
                             custom_words(a, g).num_words, o)
    IN IF r.ret # Success THEN [ret |-> r.ret, ops |-> r.ops \o r.ops] ELSE r

\* main, lines 183-207: the switch; o is the outcome of the interface's SendVDM
send_switch(a, g, o) ==
    IF a.cmd = "CMD_REBOOT" THEN HPMSendKnownVDM(kHPMKnownVDMReboot, o)
    ELSE IF a.cmd = "CMD_DFU" THEN HPMSendKnownVDM(kHPMKnownVDMDFU, o)
    ELSE IF a.cmd = "CMD_DEBUG" THEN HPMSendKnownVDM(kHPMKnownVDMDebugUSB, o)
    ELSE LET c == custom_words(a, g)
         IN HPMSendVDM(c.words, c.num_words, o)

\* main, lines 183-210: send the VDM
MainSend ==
    /\ pc = "send"
    /\ LET ub == args.cmd = "CMD_CUSTOM" /\ custom_words(args, ZeroWord).ub
       IN \E o \in {Success} \cup Errs,
             g \in (IF ub THEN GarbageWords ELSE {ZeroWord}),
             crash \in (IF ub THEN BOOLEAN ELSE {FALSE}) :
            IF crash
            THEN /\ pc' = "exited"
                 /\ exitCode' = "crash"
                 /\ UNCHANGED <<ret, call, log>>
            ELSE LET r == send_switch(args, g, o)
                 IN /\ ret' = r.ret
                    /\ call' = [fn |-> "HPMSendVDM", out |-> r]
                    /\ log' = log \o r.ops
                    /\ goto(send_branch(r.ret))
    /\ UNCHANGED <<argv, args, hpm, connType, mode, sKey>>

\* cli_exit_dbma_mode, lines 145-147: the DBMa command with argument 0
ExitDBMA ==
    /\ pc = "exit_dbma"
    /\ \E o \in DoOutcomes(MainCmdReplies) :
         LET r == HPMDoCommand("DBMa", kHPMCommandArg0, 1, FALSE, o)
         IN /\ ret' = r.ret
            /\ call' = [fn |-> "HPMDoCommand", out |-> r]
            /\ log' = log \o r.ops
            /\ goto(IF r.ret # Success THEN "fatal" ELSE "exit_verify")
    /\ UNCHANGED <<argv, args, hpm, connType, mode, sKey>>

\* cli_exit_dbma_mode, lines 149-153: the mode query after the command
ExitVerify ==
    /\ pc = "exit_verify"
    /\ \E o \in ReadFail \cup ReadOk(MainModeReplies) :
         LET r == HPMGetMode(o)
         IN /\ ret' = r.ret
            /\ mode' = IF r.ret = Success THEN r.mode ELSE mode
            /\ call' = [fn |-> "HPMGetMode", out |-> r]
            /\ log' = log \o r.ops
            /\ goto(exit_verify_branch(r))
    /\ UNCHANGED <<argv, args, hpm, connType, sKey>>

\* main, lines 213-215: HPMClientClose and return 0
MainClose ==
    /\ pc = "close"
    /\ hpm' = HPMClientClose(hpm)
    /\ log' = Append(log, Ev("Close", 0, "", <<>>, 0, 0, Success, <<>>))
    /\ call' = [fn |-> "HPMClientClose"]
    /\ pc' = "exited"
    /\ exitCode' = "0"
    /\ UNCHANGED <<argv, args, connType, mode, ret, sKey>>

\* args_t before args_parse
NoArgs == [prog |-> <<>>, cmd |-> "CMD_HELP", rid |-> 0, num_rest |-> 0,
           rest |-> [k \in 0..(RestSize - 1) |-> Uninit], stores |-> {},
           optind |-> 1]

Init ==
    /\ argv \in Argvs
    /\ pc = "main"
    /\ args = NoArgs
    /\ hpm = "unopened"
    /\ connType = "unset"
    /\ mode = "unset"
    /\ ret = "unset"
    /\ sKey = ZeroWord
    /\ log = <<>>
    /\ call = NoCall
    /\ exitCode = "running"

Next ==
    \/ MainParse
    \/ MainCheckRoot
    \/ MainOpen
    \/ MainConnType
    \/ EnterGetMode
    \/ EnterUnlock
    \/ EnterDBMA
    \/ EnterVerify
    \/ MainSend
    \/ ExitDBMA
    \/ ExitVerify
    \/ MainClose

Spec == Init /\ [][Next]_vars

(***************************************************************************)
(* The library on its own: one call of a function of HPMFraud.h with any   *)
(* input and any outcome of the calls it makes.                            *)
(***************************************************************************)
\* largest first byte of a reply to the connection type read
MaxConnByte == 9
\* largest selector handed to HPMSendKnownVDM
MaxSelector == 5

\* bytes of the mode tags, and two that are in neither
ModeBytes == {65, 80, 68, 66, 77, 97, 0, 32}

LibModeReplies == UNION { [1..n -> ModeBytes] : n \in 0..MaxReplyLen }

LibConnReplies ==
    {<<>>} \cup { <<b>> : b \in 0..MaxConnByte }
           \cup { <<b, 1>> : b \in {252, 253, 254, 255} }

LibCmdReplies == { <<>>, <<0>>, <<79>>, <<16, 1>> }

LibCmdArgs ==
    { [p |-> NullPtr, n |-> 0], [p |-> NullPtr, n |-> 4],
      [p |-> kHPMCommandArg0, n |-> 1], [p |-> kHPMCommandArg1, n |-> 1],
      [p |-> kHPMCommandArg1, n |-> 0],
      [p |-> Ptr(BytesOfWord(WordOfBytes(PlatformName))), n |-> 4] }

LibDone(c) ==
    /\ call' = c
    /\ log' = log \o c.out.ops
    /\ pc' = "lib_done"
    /\ UNCHANGED <<argv, args, hpm, connType, mode, ret, exitCode>>

LibGetMode ==
    /\ pc = "lib"
    /\ \E o \in ReadFail \cup ReadOk(LibModeReplies) :
         LibDone([fn |-> "HPMGetMode", in |-> o, out |-> HPMGetMode(o)])
    /\ UNCHANGED sKey

LibGetConnectionType ==
    /\ pc = "lib"
    /\ \E o \in ReadFail \cup ReadOk(LibConnReplies) :
         LibDone([fn |-> "HPMGetConnectionType", in |-> o,
                  out |-> HPMGetConnectionType(o)])
    /\ UNCHANGED sKey

LibDoCommand ==
    /\ pc = "lib"
    /\ \E command \in {"DBMa", "Gaid", "LOCK"}, a \in LibCmdArgs,
          wantOut \in BOOLEAN, o \in DoOutcomes(LibCmdReplies) :
         LibDone([fn |-> "HPMDoCommand",
                  in |-> [command |-> command, args |-> a.p, argsLength |-> a.n,
                          wantOut |-> wantOut, o |-> o],
                  out |-> HPMDoCommand(command, a.p, a.n, wantOut, o)])
    /\ UNCHANGED sKey

LibSendKnownVDM ==
    /\ pc = "lib"
    /\ \E knownVDM \in (-1)..MaxSelector, o \in {Success} \cup Errs :
         LibDone([fn |-> "HPMSendKnownVDM",
                  in |-> [knownVDM |-> knownVDM, o |-> o],
                  out |-> HPMSendKnownVDM(knownVDM, o)])
    /\ UNCHANGED sKey

LibUnlockACE ==
    /\ pc = "lib"
    /\ \E o \in UnlockOutcomes(sKey, LibCmdReplies) :
         LET r == HPMUnlockACE(sKey, o)
         IN /\ LibDone([fn |-> "HPMUnlockACE", in |-> o, out |-> r])
            /\ sKey' = r.sKey

LibClientOpen ==
    /\ pc = "lib"
    /\ \E rid \in {0, 1, 2}, o \in OpenOutcomes :
         LET r == HPMClientOpen(rid, o)
         IN /\ call' = [fn |-> "HPMClientOpen", in |-> [rid |-> rid, o |-> o],
                        out |-> r]
            /\ hpm' = r.client
            /\ pc' = "lib_done"
            /\ UNCHANGED <<argv, args, connType, mode, ret, sKey, log, exitCode>>

\* the key is either not derived yet or cached by an earlier call
InitLib ==
    /\ argv = <<t_prog>>
    /\ pc = "lib"
    /\ args = NoArgs
    /\ hpm = "unopened"
    /\ connType = "unset"
    /\ mode = "unset"
    /\ ret = "unset"
    /\ sKey \in {ZeroWord, WordOfBytes(PlatformName)}
    /\ log = <<>>
    /\ call = NoCall
    /\ exitCode = "running"

NextLib ==
    \/ LibGetMode
    \/ LibGetConnectionType
    \/ LibDoCommand
    \/ LibSendKnownVDM
    \/ LibUnlockACE
    \/ LibClientOpen

SpecLib == InitLib /\ [][NextLib]_vars

(***************************************************************************)
(* Properties.                                                             *)
(***************************************************************************)
IsModeRead(e) == e.op = "Read" /\ e.addr = 3
IsSend(e) == e.op = "SendVDM"

\* the reply of a mode read starts with 'D','B','M','a'
SaysDBMa(e) ==
    e.ok /\ Len(e.reply) >= 4 /\ SubSeq(e.reply, 1, 4) = <<68, 66, 77, 97>>

\* the mode query failed: the read failed or the reply is too short
ModeQueryFailed(e) == ~e.ok \/ Len(e.reply) < 4

\* log[i] is the DBMa command, issued after its 1-byte argument b was written
DBMaCmdAt(i, b) ==
    /\ i > 1
    /\ log[i].op = "Command" /\ log[i].cmd = "DBMa"
    /\ log[i - 1].op = "Write" /\ log[i - 1].addr = 9 /\ log[i - 1].data = <<b>>

\* the index of the last Command before log[j], or 0
LastCmdBefore(j) ==
    LET ks == { k \in 1..(j - 1) : log[k].op = "Command" }
    IN IF ks = {} THEN 0 ELSE CHOOSE k \in ks : \A x \in ks : x <= k

AfterEnterCmd(j) == LastCmdBefore(j) > 0 /\ DBMaCmdAt(LastCmdBefore(j), 1)
AfterExitCmd(j)  == LastCmdBefore(j) > 0 /\ DBMaCmdAt(LastCmdBefore(j), 0)

\* the run passed cli_enter_dbma_mode: a mode query of it said DBMa
EnteredDiagnostic ==
    \E j \in DOMAIN log :
        IsModeRead(log[j]) /\ SaysDBMa(log[j]) /\ ~AfterExitCmd(j)

\* the process ended through return or exit()
Exited == pc = "exited" /\ exitCode \in {"0", "1"}

\* C1: a VDM frame is sent only when the latest mode query before it said
\* DBMa; and once a mode query of cli_enter_dbma_mode has failed, or the one
\* after the DBMa-enter command said something else than DBMa, the run has
\* ended with exit code 1 and no frame was sent.
C1_SendOnlyInDiagnostic ==
    /\ \A i \in DOMAIN log :
         IsSend(log[i]) =>
           \E j \in 1..(i - 1) :
              /\ IsModeRead(log[j]) /\ SaysDBMa(log[j])
              /\ \A k \in (j + 1)..(i - 1) : ~IsModeRead(log[k])
    /\ \A j \in DOMAIN log :
         ( /\ IsModeRead(log[j]) /\ ~AfterExitCmd(j)
           /\ \/ ModeQueryFailed(log[j])
              \/ AfterEnterCmd(j) /\ ~SaysDBMa(log[j]) )
         => /\ pc = "exited" /\ exitCode = "1"
            /\ \A i \in DOMAIN log : ~IsSend(log[i])

\* a frame was sent after the chip was switched by the DBMa-enter command
C1_Witness ==
    \E i \in DOMAIN log :
        /\ IsSend(log[i]) /\ log[i].ok
        /\ \E k \in 1..(i - 1) : DBMaCmdAt(k, 1)

\* C2: a run that entered Diagnostic mode and has exited has started the
\* DBMa-exit command (the write of its argument 0) before.
C2_ExitAlwaysAttempted ==
    (Exited /\ EnteredDiagnostic) =>
        \E k \in DOMAIN log :
            log[k].op = "Write" /\ log[k].addr = 9 /\ log[k].data = <<0>>

\* C3: a run in which HPMClientOpen succeeded and which has exited has called
\* HPMClientClose.
C3_ClosedBeforeExit ==
    (Exited /\ \E i \in DOMAIN log : log[i].op = "Open" /\ log[i].ok) =>
        /\ hpm = "closed"
        /\ \E i \in DOMAIN log : log[i].op = "Close"

CountCmd(ops, c) ==
    Cardinality({ i \in DOMAIN ops : ops[i].op = "Command" /\ ops[i].cmd = c })

\* C4: HPMUnlockACE performs Lock; on success nothing else; on failure one
\* Gaid, whose failure is returned without a second Lock, and after whose
\* success one more Lock is performed and its result returned.  Never more
\* than two Lock and one Gaid commands reach the transport.
C4_UnlockHandshake ==
    call.fn = "HPMUnlockACE" =>
      LET c   == call.out.cmds
          ops == call.out.ops
      IN /\ Len(c) >= 1 /\ c[1].command = "LOCK"
         /\ c[1].ret = Success =>
              /\ Len(c) = 1 /\ call.out.ret = Success
              /\ CountCmd(ops, "Gaid") = 0 /\ CountCmd(ops, "LOCK") = 1
         /\ c[1].ret # Success =>
              /\ Len(c) >= 2 /\ c[2].command = "Gaid"
              /\ CountCmd(ops, "Gaid") = 1
              /\ c[2].ret # Success =>
                   /\ Len(c) = 2 /\ call.out.ret = c[2].ret
                   /\ CountCmd(ops, "LOCK") <= 1
              /\ c[2].ret = Success =>
                   /\ Len(c) = 3 /\ c[3].command = "LOCK"
                   /\ call.out.ret = c[3].ret
         /\ CountCmd(ops, "LOCK") <= 2 /\ CountCmd(ops, "Gaid") <= 1

\* the first Lock failed, the reset succeeded, the second Lock succeeded
C4_Witness ==
    /\ call.fn = "HPMUnlockACE"
    /\ Len(call.out.cmds) = 3
    /\ call.out.ret = Success
    /\ CountCmd(call.out.ops, "LOCK") = 2

\* the hexadecimal tokens that follow the command in argv
TokensAfterCmd ==
    [k \in 1..(Len(argv) - args.optind - 1) |-> argv[args.optind + 1 + k]]

\* tok is a hexadecimal number of at most 8 digits, with or without 0x
WellFormedHex(tok) ==
    LET r == StrToL(tok, 16)
    IN tok # <<>> /\ r.end = Len(tok) + 1 /\ ~r.neg /\ Len(r.digits) <= 8
       /\ tok[1] \notin {" ", "+"}

\* a custom command with 1..8 well-formed tokens, in a run of main in which
\* args_parse and the loop over rest stayed inside their arrays
CustomCase ==
    /\ args.cmd = "CMD_CUSTOM"
    /\ args.stores \subseteq 0..7
    /\ ~custom_words(args, ZeroWord).ub
    /\ Len(TokensAfterCmd) \in 1..8
    /\ \A k \in DOMAIN TokensAfterCmd : WellFormedHex(TokensAfterCmd[k])

\* C5: the custom command with N tokens hands 4*N as the length to the
\* raw-frame send, and the words in the order of the tokens.
C5_CustomLength ==
    \A i \in DOMAIN log :
        (IsSend(log[i]) /\ CustomCase) =>
            /\ log[i].len = 4 * Len(TokensAfterCmd)
            /\ \A k \in DOMAIN TokensAfterCmd :
                 log[i].data[k] = word_of(TokensAfterCmd[k])

\* C6: the word array of the custom command holds the tokens after 'custom',
\* each as a 32-bit value, in order, and no other word.
C6_CustomWords ==
    \A i \in DOMAIN log :
        (IsSend(log[i]) /\ CustomCase) =>
            log[i].data =
                [k \in 1..8 |-> IF k <= Len(TokensAfterCmd)
                                THEN word_of(TokensAfterCmd[k]) ELSE ZeroWord]

\* C7: when the first mode query of a run says DBMa, cli_enter_dbma_mode has
\* made that one read and nothing else: it is the third call on the handle,
\* the next call (if any) is the frame, and the run did not fail there.
C7_EnterIdempotent ==
    \A j \in DOMAIN log :
        ( /\ IsModeRead(log[j]) /\ SaysDBMa(log[j])
          /\ \A k \in 1..(j - 1) : ~IsModeRead(log[k]) )
        => /\ j = 3
           /\ j < Len(log) => IsSend(log[j + 1])
           /\ j = Len(log) => (pc = "send" \/ exitCode = "crash")
           /\ pc = "send" => exitCode = "running"

C7_Witness ==
    /\ pc = "send"
    /\ Len(log) = 3
    /\ IsModeRead(log[3]) /\ SaysDBMa(log[3])
    /\ ret = Success

\* C8: HPMGetMode fails, writing no mode, when the read fails or the reply
\* has fewer than 4 bytes; otherwise it succeeds with Application iff the
\* reply starts 'A','P','P', Diagnostic iff it starts 'D','B','M','a', and
\* Unknown for anything else.
C8_GetMode ==
    call.fn = "HPMGetMode" =>
      LET o == call.in
          r == call.out
      IN IF o.ret # Success \/ Len(o.reply) < 4
         THEN r.ret # Success /\ r.mode = "unset"
         ELSE /\ r.ret = Success
              /\ r.mode = "kHPMModeApp" <=> SubSeq(o.reply, 1, 3) = <<65, 80, 80>>
              /\ r.mode = "kHPMModeDBMA" <=> SubSeq(o.reply, 1, 4) = <<68, 66, 77, 97>>
              /\ r.mode = "kHPMModeUnknown" <=>
                    /\ SubSeq(o.reply, 1, 3) # <<65, 80, 80>>
                    /\ SubSeq(o.reply, 1, 4) # <<68, 66, 77, 97>>

C8_Witness ==
    /\ call.fn = "HPMGetMode"
    /\ call.in.ret = Success
    /\ call.in.reply = <<65, 80, 80, 32>>
    /\ call.out.mode = "kHPMModeApp"

\* C9 as claimed: Error iff the read fails or is empty, otherwise the first
\* byte AND 3, and the result is one of Error, None, Source, Sink.
C9_ConnTypeNamed ==
    call.fn = "HPMGetConnectionType" =>
      LET o == call.in
          t == call.out.type
      IN /\ t = -1 <=> (o.ret # Success \/ Len(o.reply) = 0)
         /\ t # -1 => t = o.reply[1] % 4
         /\ t \in {kHPMConnectionTypeError, kHPMConnectionTypeNone,
                   kHPMConnectionTypeSource, kHPMConnectionTypeSink}

\* C9 amended: Error iff the read fails or is empty, otherwise the first
\* byte AND 3: None for 0, Source for 1, Sink for 3, and the unnamed value 2
\* when the low bits are 10.
C9_ConnType ==
    call.fn = "HPMGetConnectionType" =>
      LET o == call.in
          t == call.out.type
      IN /\ t = -1 <=> (o.ret # Success \/ Len(o.reply) = 0)
         /\ t # -1 => t = o.reply[1] % 4
         /\ t \in {kHPMConnectionTypeError, kHPMConnectionTypeNone,
                   kHPMConnectionTypeSource, kHPMConnectionTypeSink, 2}
         /\ t = 2 <=> (o.ret = Success /\ Len(o.reply) > 0 /\ o.reply[1] % 4 = 2)

\* a reply whose low bits are 10 under higher bits
C9_Witness ==
    /\ call.fn = "HPMGetConnectionType"
    /\ call.in.ret = Success
    /\ call.in.reply = <<6>>
    /\ call.out.type = 2

\* one SendVDM with selector 3 and flags 0, carrying body with length len
OneFrame(ops, body, len) ==
    /\ Len(ops) = 1
    /\ ops[1].op = "SendVDM" /\ ops[1].addr = 3 /\ ops[1].flags = 0
    /\ ops[1].data = body /\ ops[1].len = len

\* C10: HPMSendKnownVDM sends, with selector 3 and flags 0, List as
\* [0x5AC8010] (4 bytes), Reboot as [0x5AC8012, 0x105, 0x80000000] (12), DFU
\* as [0x5AC8012, 0x106, 0x80010000] (12), DebugUSB as [0x5AC8012, 0x824606]
\* (8); any other selector is an error and sends nothing.
C10_KnownVDM ==
    call.fn = "HPMSendKnownVDM" =>
      LET v   == call.in.knownVDM
          ops == call.out.ops
      IN /\ v = 0 => OneFrame(ops, << <<0, 5, 10, 12, 8, 0, 1, 0>> >>, 4)
         /\ v = 1 => OneFrame(ops, << <<0, 5, 10, 12, 8, 0, 1, 2>>,
                                      <<0, 0, 0, 0, 0, 1, 0, 5>>,
                                      <<8, 0, 0, 0, 0, 0, 0, 0>> >>, 12)
         /\ v = 2 => OneFrame(ops, << <<0, 5, 10, 12, 8, 0, 1, 2>>,
                                      <<0, 0, 0, 0, 0, 1, 0, 6>>,
                                      <<8, 0, 0, 1, 0, 0, 0, 0>> >>, 12)
         /\ v = 3 => OneFrame(ops, << <<0, 5, 10, 12, 8, 0, 1, 2>>,
                                      <<0, 0, 8, 2, 4, 6, 0, 6>> >>, 8)
         /\ v \in 0..3 => call.out.ret = call.in.o
         /\ v \notin 0..3 => call.out.ret # Success /\ ops = <<>>

C10_Witness ==
    /\ call.fn = "HPMSendKnownVDM"
    /\ call.in.knownVDM = 3
    /\ call.out.ret = Success
    /\ Len(call.out.ops) = 1

\* the connection type was queried in this run, so connType holds its result
ConnQueried == \E i \in DOMAIN log : log[i].op = "Read" /\ log[i].addr = 63

\* C11: when the connection-type query returned None or Error, the run has
\* ended with exit code 1 and the transport saw nothing but the open and the
\* connection-type read: no mode query, no write of a command argument, no
\* command (Lock, reset, DBMa) and no VDM send.
C11_NoDeviceFails ==
    (ConnQueried /\ connType \in {kHPMConnectionTypeNone, kHPMConnectionTypeError})
    => /\ pc = "exited" /\ exitCode = "1"
       /\ \A i \in DOMAIN log :
            \/ log[i].op = "Open"
            \/ log[i].op = "Read" /\ log[i].addr = 63

\* a run in which the status register said that nothing is connected
C11_Witness ==
    /\ ConnQueried
    /\ connType = kHPMConnectionTypeNone
    /\ log[Len(log)].ok /\ log[Len(log)].reply = <<0>>
    /\ pc = "exited" /\ exitCode = "1"

\* log[i] is the write of the 1-byte argument 0 that opens cli_exit_dbma_mode
ExitArgWriteAt(i) ==
    /\ log[i].op = "Write" /\ log[i].addr = 9
    /\ log[i].data = <<0>> /\ log[i].len = 1

\* C12: cli_exit_dbma_mode issues the DBMa command with the 1-byte argument
\* 0 (argument write, command, reply read) and then queries the mode once.
\* The run ends there with exit code 1 exactly when a step of the command
\* failed, the mode query failed or the mode read back is DBMa; when the mode
\* read back is Application or Unknown the run goes on to close the handle.
C12_ExitDiagnostic ==
    \A i \in DOMAIN log :
       ExitArgWriteAt(i) =>
         LET n == Len(log) - i
             cmdFailed == \/ ~log[i].ok
                          \/ n >= 1 /\ ~log[i + 1].ok
                          \/ n >= 2 /\ ~log[i + 2].ok
             still == n >= 3 /\ (ModeQueryFailed(log[i + 3]) \/ SaysDBMa(log[i + 3]))
         IN /\ n >= 1 => log[i + 1].op = "Command" /\ log[i + 1].cmd = "DBMa"
            /\ n >= 2 => log[i + 2].op = "Read" /\ log[i + 2].addr = 9
            /\ n >= 3 => IsModeRead(log[i + 3])
            /\ n >= 4 => n = 4 /\ log[i + 4].op = "Close"
            /\ (pc = "exited" /\ exitCode = "1") <=> (cmdFailed \/ still)
            /\ cmdFailed => n <= 2 /\ ~log[Len(log)].ok
            /\ still => n = 3
            /\ ~(cmdFailed \/ still) =>
                 \/ n = 2 /\ pc = "exit_verify"
                 \/ n = 3 /\ pc = "close"
                 \/ n = 4 /\ pc = "exited" /\ exitCode = "0"

\* the exit succeeded although the mode read back is neither tag (Unknown)
C12_Witness ==
    \E i \in DOMAIN log :
       /\ ExitArgWriteAt(i)
       /\ Len(log) = i + 4
       /\ log[i + 3].ok /\ log[i + 3].reply = <<68, 66, 77, 0>>
       /\ pc = "exited" /\ exitCode = "0"

\* what a run that ends well has done, as the log and the handle show it
OpenSucceeded == \E i \in DOMAIN log : log[i].op = "Open" /\ log[i].ok
DeviceConnected ==
    /\ ConnQueried
    /\ connType \notin {kHPMConnectionTypeError, kHPMConnectionTypeNone}
SendSucceeded == \E i \in DOMAIN log : IsSend(log[i]) /\ log[i].ok
ExitSucceeded ==
    \E i \in DOMAIN log :
       /\ ExitArgWriteAt(i) /\ Len(log) >= i + 3
       /\ \A k \in i..(i + 3) : log[k].ok
       /\ ~ModeQueryFailed(log[i + 3]) /\ ~SaysDBMa(log[i + 3])
HandleClosed == hpm = "closed" /\ log[Len(log)].op = "Close"
CleanRun ==
    /\ OpenSucceeded /\ DeviceConnected /\ EnteredDiagnostic
    /\ SendSucceeded /\ ExitSucceeded /\ HandleClosed

\* C13: a process that has ended has exit code 0 only if open succeeded, a
\* device was connected, Diagnostic mode was confirmed, the send succeeded,
\* Diagnostic mode was left and the handle was closed; in every other case
\* its exit code is 1.
C13_ExitCodes ==
    pc = "exited" =>
       /\ exitCode = "0" => CleanRun
       /\ ~CleanRun => exitCode = "1"

\* a call of HPMClientOpen whose enumeration of the AppleHPM services worked
OpenCalled == call.fn = "HPMClientOpen" /\ call.in.o.enum = Success

\* positions of the enumerated instances with the requested RID, and of
\* those whose RID property cannot be read
Matching(rid, ds) == { i \in DOMAIN ds : ds[i].hasRID /\ ds[i].rid = rid }
Unreadable(ds) == { i \in DOMAIN ds : ~ds[i].hasRID }
First(S) == CHOOSE i \in S : \A j \in S : i <= j

\* C14 as stated: whenever no enumerated instance has the requested RID the
\* result is NotFound with the client unwritten, and whenever one has, the
\* first such instance is the one opened.
C14_NotFoundOrFirst ==
    OpenCalled =>
       LET ms == Matching(call.in.rid, call.in.o.devices)
       IN /\ ms = {} => /\ call.out.ret = "kIOReturnNotFound"
                        /\ hpm = "unopened"
          /\ ms # {} => call.out.service = First(ms)

\* C14, amended: the scan stops at the first instance that has the requested
\* RID or no readable RID.  If there is none the result is NotFound; if it
\* is one without a readable RID the result is kIOReturnError; in both cases
\* and when the enumeration fails the client is left unwritten.  Otherwise
\* that first matching instance is the one the plug-in interface is created
\* for, and the client is written exactly when the result is success.
C14_ClientOpen ==
    /\ (call.fn = "HPMClientOpen" /\ call.in.o.enum # Success) =>
          call.out.ret = call.in.o.enum /\ hpm = "unopened"
    /\ OpenCalled =>
         LET ds == call.in.o.devices
             ms == Matching(call.in.rid, ds)
             us == Unreadable(ds)
         IN IF ms \cup us = {}
            THEN call.out.ret = "kIOReturnNotFound" /\ hpm = "unopened"
            ELSE IF First(ms \cup us) \in us
            THEN call.out.ret = "kIOReturnError" /\ hpm = "unopened"
            ELSE /\ call.out.service = First(ms)
                 /\ call.out.ret = Success
                      <=> (call.in.o.plugin = Success /\ call.in.o.query)
                 /\ hpm = (IF call.out.ret = Success THEN "open" ELSE "unopened")

\* the second of two instances has the requested RID and is opened
C14_Witness ==
    /\ OpenCalled
    /\ call.in.rid = 0
    /\ call.in.o.devices = <<RidDevice(1), RidDevice(0)>>
    /\ call.out.ret = Success /\ call.out.service = 2
    /\ hpm = "open"

\* the word main's loop stored for the k-th token after the command: argv[i]
\* goes to rest[i - 2], and rest[j] to words[j] (here counted from 1)
WordStoredFor(data, k) == data[rest_index(args.optind + k) + 1]

\* the tokens after the command that args_parse stored: its loop leaves at
\* argv index 8
StoredTokens == { k \in DOMAIN TokensAfterCmd : args.optind + k < 8 }

\* a custom command in a run of main in which args_parse and the loop over
\* rest stayed inside their arrays
CustomInBounds ==
    /\ args.cmd = "CMD_CUSTOM"
    /\ args.stores \subseteq 0..7
    /\ ~custom_words(args, ZeroWord).ub

ExpectedWord(tok) ==
    CASE tok = <<"5","a","c","8","0","1","2">> -> <<0, 5, 10, 12, 8, 0, 1, 2>>
      [] tok = <<"1","0","5">> -> <<0, 0, 0, 0, 0, 1, 0, 5>>
      [] tok = <<"8","0","0","0","0","0","0","0">> -> <<8, 0, 0, 0, 0, 0, 0, 0>>
      [] tok = <<"1","f">> -> <<0, 0, 0, 0, 0, 0, 1, 15>>
      [] tok = <<"0","x","A","b">> -> <<0, 0, 0, 0, 0, 0, 10, 11>>
      [] tok = <<"0">> -> <<0, 0, 0, 0, 0, 0, 0, 0>>
      [] tok = <<"f","f","f","f","f","f","f","f">> -> <<15, 15, 15, 15, 15, 15, 15, 15>>
      [] tok = <<"7">> -> <<0, 0, 0, 0, 0, 0, 0, 7>>
      [] tok = <<"2","a">> -> <<0, 0, 0, 0, 0, 0, 2, 10>>
      \* no digit to convert: 0
      [] tok = <<"z","z">> -> <<0, 0, 0, 0, 0, 0, 0, 0>>
      [] tok = <<>> -> <<0, 0, 0, 0, 0, 0, 0, 0>>
      [] tok = <<"r","e","b","o","o","t">> -> <<0, 0, 0, 0, 0, 0, 0, 0>>
      \* the "0" of "0x" is converted, the x is not
      [] tok = <<"0","x">> -> <<0, 0, 0, 0, 0, 0, 0, 0>>
      \* the digits before the first other character
      [] tok = <<"1","2","g">> -> <<0, 0, 0, 0, 0, 0, 1, 2>>
      \* sign and white space are accepted
      [] tok = <<"-","1">> -> <<15, 15, 15, 15, 15, 15, 15, 15>>
      [] tok = <<" ","9">> -> <<0, 0, 0, 0, 0, 0, 0, 9>>
      [] tok = <<"+","f">> -> <<0, 0, 0, 0, 0, 0, 0, 15>>
      \* 0x1ffffffff fits a long and is cut to its low 32 bits
      [] tok = <<"1","f","f","f","f","f","f","f","f">> -> <<15, 15, 15, 15, 15, 15, 15, 15>>

Step(op, addr, cmd) == [op |-> op, addr |-> addr, cmd |-> cmd]
StepOf(e) == Step(e.op, e.addr, e.cmd)

\* the device of the scenario: something is connected, every call that was
\* made on it succeeded, and a mode read says DBMa exactly when the last
\* command before it was DBMa-enter, else APP
DeviceBehaves ==
    /\ \A i \in DOMAIN log : log[i].ok
    /\ \A i \in DOMAIN log :
         (log[i].op = "Read" /\ log[i].addr = 63)
         => Len(log[i].reply) > 0 /\ log[i].reply[1] % 4 # 0
    /\ \A j \in DOMAIN log :
         IsModeRead(log[j])
         => log[j].reply = (IF AfterEnterCmd(j) THEN <<68, 66, 77, 97>>
                            ELSE <<65, 80, 80, 0>>)

\* the run is 'reboot' on RID 0 and has passed the privilege check
RebootScenario ==
    /\ args.cmd = "CMD_REBOOT" /\ args.rid = 0
    /\ log # <<>>
    /\ DeviceBehaves

\* the calls of the scenario in order; the unlock is the Lock command, with
\* the write of the 4-byte key before it when the key could be derived
RebootOrder(keyWritten) ==
    <<Step("Open", 0, ""), Step("Read", 63, ""), Step("Read", 3, "")>>
    \o (IF keyWritten THEN <<Step("Write", 9, "")>> ELSE <<>>)
    \o <<Step("Command", 0, "LOCK"), Step("Read", 9, ""),
         Step("Write", 9, ""), Step("Command", 0, "DBMa"), Step("Read", 9, ""),
         Step("Read", 3, ""),
         Step("SendVDM", 3, ""),
         Step("Write", 9, ""), Step("Command", 0, "DBMa"), Step("Read", 9, ""),
         Step("Read", 3, ""),
         Step("Close", 0, "")>>

\* C16: in a run of 'reboot' on RID 0 against a connected device on which
\* every operation succeeds and which is in Application mode until DBMa-enter
\* and after DBMa-exit, the calls made so far are always the beginning of:
\* open, connection-type read, mode read, unlock, DBMa-enter (argument 1),
\* mode read, the 3-word Reboot frame (12 bytes), DBMa-exit (argument 0),
\* mode read, close.  The run can always go on until it has ended, and when
\* it has ended all of these calls were made and the exit code is 0.
C16_RebootScenario ==
    RebootScenario =>
       LET kw    == Len(log) >= 4 /\ log[4].op = "Write" /\ log[4].len = 4
           order == RebootOrder(kw)
           u     == IF kw THEN 1 ELSE 0
       IN /\ Len(log) <= Len(order)
          /\ \A i \in DOMAIN log : StepOf(log[i]) = order[i]
          /\ Len(log) >= 6 + u =>
                log[6 + u].data = <<1>> /\ log[6 + u].len = 1
          /\ Len(log) >= 10 + u =>
                /\ log[10 + u].data = << <<0, 5, 10, 12, 8, 0, 1, 2>>,
                                         <<0, 0, 0, 0, 0, 1, 0, 5>>,
                                         <<8, 0, 0, 0, 0, 0, 0, 0>> >>
                /\ log[10 + u].len = 12
          /\ Len(log) >= 11 + u =>
                log[11 + u].data = <<0>> /\ log[11 + u].len = 1
          /\ pc # "exited" => ENABLED Next
          /\ pc = "exited" => exitCode = "0" /\ Len(log) = Len(order)

\* the scenario was run to its end, with the key written before the Lock
C16_Witness ==
    /\ RebootScenario
    /\ pc = "exited" /\ exitCode = "0"
    /\ Len(log) = 16
    /\ log[4].op = "Write" /\ log[4].data = <<52, 49, 51, 74>>
    /\ log[11].op = "SendVDM"
    /\ log[16].op = "Close"

\* how many entries of the log satisfy P
CountLog(P(_)) == Cardinality({ i \in DOMAIN log : P(i) })
IsOpenAt(i) == log[i].op = "Open"
IsConnReadAt(i) == log[i].op = "Read" /\ log[i].addr = 63
IsEnterCmdAt(i) == DBMaCmdAt(i, 1)
IsExitCmdAt(i) == DBMaCmdAt(i, 0)
IsSendAt(i) == IsSend(log[i])
IsCloseAt(i) == log[i].op = "Close"

\* the run is past a successful send
Sent == \E i \in DOMAIN log : IsSend(log[i]) /\ log[i].ok

\* C17: a run makes at most one open, one connection-type read, one
\* DBMa-enter command, one VDM transmission, one DBMa-exit command and one
\* close, at most two Lock commands and one reset; a call that failed is
\* followed by another call only when it belongs to the first Lock of the
\* unlock handshake, which the reset follows; and a run that is past a
\* successful send has transmitted exactly one frame.
C17_NoRetry ==
    /\ CountLog(IsOpenAt) <= 1
    /\ CountLog(IsConnReadAt) <= 1
    /\ CountLog(IsEnterCmdAt) <= 1
    /\ CountLog(IsSendAt) <= 1
    /\ CountLog(IsExitCmdAt) <= 1
    /\ CountLog(IsCloseAt) <= 1
    /\ CountCmd(log, "LOCK") <= 2 /\ CountCmd(log, "Gaid") <= 1
    /\ \A i \in DOMAIN log :
         (~log[i].ok /\ i < Len(log))
         => /\ log[i + 1].op = "Command" /\ log[i + 1].cmd = "Gaid"
            /\ CountCmd(SubSeq(log, 1, i), "LOCK") <= 1
            /\ CountCmd(SubSeq(log, 1, i), "Gaid") = 0
    /\ (pc \in {"exit_dbma", "exit_verify", "close"} \/ hpm = "closed" \/ Sent)
         => CountLog(IsSendAt) = 1

\* a run that ended well after a second Lock: each call was made once, the
\* Lock twice
C17_Witness ==
    /\ pc = "exited" /\ exitCode = "0"
    /\ CountCmd(log, "LOCK") = 2 /\ CountCmd(log, "Gaid") = 1
    /\ CountLog(IsOpenAt) = 1 /\ CountLog(IsConnReadAt) = 1
    /\ CountLog(IsEnterCmdAt) = 1 /\ CountLog(IsSendAt) = 1
    /\ CountLog(IsExitCmdAt) = 1 /\ CountLog(IsCloseAt) = 1

\* C18: no call reaches the hardware before the privilege check is done;
\* when geteuid did not return 0 the run has ended with exit code 1 and
\* neither HPMClientOpen nor a transport primitive was called; when it
\* returned 0 the open is what comes next; and a run that shows the help has
\* ended with exit code 1 without calling geteuid.
C18_PrivilegeFirst ==
    /\ pc \in {"main", "check_root"} => log = <<>> /\ hpm = "unopened"
    /\ (call.fn = "geteuid" /\ call.out # 0)
         => /\ pc = "exited" /\ exitCode = "1"
            /\ log = <<>> /\ hpm = "unopened"
    /\ (call.fn = "geteuid" /\ call.out = 0)
         => pc = "open" /\ log = <<>> /\ hpm = "unopened"
    /\ (pc # "main" /\ args.cmd = "CMD_HELP")
         => /\ pc = "exited" /\ exitCode = "1"
            /\ call = NoCall /\ log = <<>>

\* 'reboot' started by a user who is not root
C18_Witness ==
    /\ args.cmd = "CMD_REBOOT"
    /\ call.fn = "geteuid" /\ call.out = 501
    /\ pc = "exited" /\ exitCode = "1"
    /\ log = <<>>

\* C19: HPMDoCommand writes the arguments to address 9 only when it is given
\* a buffer and a non-zero length, then issues the command, then reads the
\* reply at address 9, in this order; when the write fails it returns that
\* error having done nothing else, and when the command issue fails it
\* returns that error without reading the reply.
C19_DoCommandOrder ==
    call.fn = "HPMDoCommand" =>
      LET in  == call.in
          ops == call.out.ops
          hasArgs == ~in.args.null /\ in.argsLength # 0
          w   == IF hasArgs THEN 1 ELSE 0
      IN /\ \A i \in DOMAIN ops : ops[i].op = "Write" => hasArgs /\ i = 1
         /\ hasArgs =>
              /\ ops[1].op = "Write" /\ ops[1].addr = 9
              /\ ops[1].data = SubSeq(in.args.bytes, 1, in.argsLength)
              /\ ops[1].len = in.argsLength
         /\ IF hasArgs /\ in.o.w # Success
            THEN Len(ops) = 1 /\ call.out.ret = in.o.w
            ELSE /\ ops[w + 1].op = "Command" /\ ops[w + 1].cmd = in.command
                 /\ IF in.o.c # Success
                    THEN Len(ops) = w + 1 /\ call.out.ret = in.o.c
                    ELSE /\ Len(ops) = w + 2
                         /\ ops[w + 2].op = "Read" /\ ops[w + 2].addr = 9

\* the argument was written, the command issue failed, nothing was read
C19_Witness ==
    /\ call.fn = "HPMDoCommand"
    /\ call.in.args = kHPMCommandArg1 /\ call.in.argsLength = 1
    /\ call.in.o.c = "kIOReturnNotResponding"
    /\ call.out.ret = "kIOReturnNotResponding"
    /\ Len(call.out.ops) = 2
    /\ call.out.ops[1].op = "Write" /\ call.out.ops[1].ok
    /\ call.out.ops[2].op = "Command" /\ ~call.out.ops[2].ok

\* C20: HPMDoCommand returns success only when the reply read succeeded with
\* at least one byte, the output byte then being the low nibble of reply
\* byte 0; a reply read that succeeds with zero bytes makes it return a
\* failure.
C20_EmptyReplyFails ==
    call.fn = "HPMDoCommand" =>
      LET rd == call.in.o.r
          readMade == call.out.ops # <<>>
                      /\ call.out.ops[Len(call.out.ops)].op = "Read"
      IN /\ call.out.ret = Success =>
              /\ readMade /\ rd.ret = Success /\ Len(rd.reply) > 0
              /\ call.in.wantOut => call.out.out = rd.reply[1] % 16
         /\ (readMade /\ rd.ret = Success /\ Len(rd.reply) = 0)
              => call.out.ret # Success

\* ops[i] is the Lock command
IsLockAt(ops, i) == ops[i].op = "Command" /\ ops[i].cmd = "LOCK"

\* ops[i] is a write of 4 bytes to the argument address
IsKeyWriteAt(ops, i) ==
    ops[i].op = "Write" /\ ops[i].addr = 9 /\ ops[i].len = 4
    /\ Len(ops[i].data) = 4

\* C21: every Lock command that HPMUnlockACE puts on the transport comes
\* directly after a write of the 4-byte key to address 9, and all these
\* writes carry the same key; also when the key cannot be derived, no Lock
\* command is issued without that write.
C21_LockHasKey ==
    call.fn = "HPMUnlockACE" =>
      LET ops == call.out.ops
      IN /\ \A i \in DOMAIN ops :
              IsLockAt(ops, i) => i > 1 /\ IsKeyWriteAt(ops, i - 1)
         /\ \A i, j \in DOMAIN ops :
              (IsKeyWriteAt(ops, i) /\ IsKeyWriteAt(ops, j))
              => ops[i].data = ops[j].data

\* C22: once args_parse has run, every store it made to the rest array went to
\* one of the indices 0..7, num_rest lies in 0..8, and for the custom command
\* every entry rest[0..num_rest-1] holds an argument of argv.
C22_RestInBounds ==
    pc # "main" =>
      /\ args.stores \subseteq 0..(RestSize - 1)
      /\ args.num_rest \in 0..RestSize
      /\ args.cmd = "CMD_CUSTOM" =>
           \A k \in 0..(RestSize - 1) :
              k < args.num_rest => args.rest[k] # Uninit

====
